---- MODULE Spec2Model ----
(***************************************************************************)
(* IBM Ponder This, March 2024: search for the smallest start value A such *)
(* that none of A + T(i), 0 <= i < n, is prime.  Three programs are        *)
(* modelled:                                                               *)
(*   "v1"  IBM_ponder_2024-03_1.c     backward crossing-out (processArray) *)
(*   "v2"  IBM_ponder_2024-03_2.c     forward table test (isCorrectValue)  *)
(*   "mt"  IBM_ponder_2024-03_2_MT.c  forward table test, numThreads       *)
(*                                    workers racing on bestValue          *)
(* One behaviour is one invocation of one program, optionally followed by  *)
(* a second invocation with another -m or -t option (run = 2).             *)
(***************************************************************************)
EXTENDS Integers, FiniteSets, Sequences, TLC

\* ------------------------------------------------------------------ bounds
MaxN == 5
MaxMem == 4
MaxStart == 10
MaxW == 3
MaxValue == 40
MaxCheck == 40
MAX_THREADS == 64
BigMem == 16

\* The worker counts tried: 1..MaxW, and the counts 8 and MAX_THREADS.
ThreadCounts == (1..MaxW) \cup {8, MAX_THREADS}

\* The block sizes tried: 1..MaxMem and, for the serial programs, one block
\* large enough to hold every answer.
MemSizes(p) == IF p = "mt" THEN 1..MaxMem ELSE (1..MaxMem) \cup {BigMem}

VARIABLES
    prog,            \* which program runs: "v1", "v2", "mt" ("check": CheckSequence alone)
    run,             \* 1: first invocation, 2: second invocation
    firstArgs,       \* [memSize, numThreads, result] of the first invocation (run = 2)
    n,               \* the positional argument n
    memSize,         \* -m (v1: size)
    argStart,        \* -s (v1 only; 0 otherwise)
    numThreads,      \* -t (mt only; 1 otherwise)
    pc,              \* position of the main thread
    it,              \* primesieve iterator: next_prime returns the first prime >= it
    startValue,      \* v1: look4StartValue's startValue; v2: main's startValue
    offset,          \* v2: main's offset
    numberArray,     \* v1: 1 = alive, 0 = crossed out
    possibleStartIndex, \* v1: processArray's rolling pointer
    lastPrime,       \* v1: last prime drawn by processArray (0: none yet)
    correctStartIndex,  \* v1: value returned by processArray
    primeArray,      \* v2, mt: 1 = prime
    globalOffset,    \* mt
    bestValue,       \* mt: 0 = no value yet
    mutex,           \* mt: -1 = free, else the worker holding it
    workers,         \* mt: per worker [pc, startValue, res]
    result,          \* the start value handed to CheckSequence (-1: none yet)
    verdict          \* CheckSequence's [res, iter] (res = -1: not run)

vars == <<prog, run, firstArgs, n, memSize, argStart, numThreads, pc, it,
          startValue, offset, numberArray, possibleStartIndex, lastPrime,
          correctStartIndex, primeArray, globalOffset, bestValue, mutex,
          workers, result, verdict>>

v1vars == <<numberArray, possibleStartIndex, lastPrime, correctStartIndex>>
mtvars == <<globalOffset, bestValue, mutex, workers>>
args == <<prog, run, firstArgs, n, memSize, argStart, numThreads>>

\* ------------------------------------------------------------ prime source
\* primesieve: x is prime.
IsPrime(x) == x > 1 /\ \A d \in 2..(x - 1) : x % d # 0

\* primesieve_next_prime after primesieve_jump_to(x): the first prime >= x.
NextPrime(x) ==
    CHOOSE p \in x..(2 * x + 3) : IsPrime(p) /\ \A q \in x..(p - 1) : ~IsPrime(q)

\* i*(i+1)/2, as in "upperBoundDiff = n*(n+1)/2".
Tri(i) == (i * (i + 1)) \div 2

NoVerdict == [res |-> -1, iter |-> 0]
NoFirst == [memSize |-> 0, numThreads |-> 0, result |-> -1]
Empty == [k \in {} |-> 0]

\* ------------------------------------------------------------ the verifier
\* CheckSequence, inner loop: while ((initialValue += (*iterationNbr)++) < nextPrime)
\*                                if (*iterationNbr >= n) break;
\* Yields <<initialValue, *iterationNbr>> at loop exit.
RECURSIVE CheckInner(_, _, _, _)
CheckInner(cur, iter, nextPrime, nn) ==
    LET c == cur + iter
        i == iter + 1
    IN  IF c < nextPrime
        THEN IF i >= nn THEN <<c, i>> ELSE CheckInner(c, i, nextPrime, nn)
        ELSE <<c, i>>

\* CheckSequence, the do ... while (*iterationNbr < n) loop.  itpos is the
\* iterator's position; the first inner loop discards the primes < cur.
RECURSIVE CheckOuter(_, _, _, _)
CheckOuter(cur, iter, itpos, nn) ==
    LET nextPrime == NextPrime(IF itpos > cur THEN itpos ELSE cur)
    IN  IF nextPrime = cur
        THEN [res |-> cur, iter |-> iter]
        ELSE LET r == CheckInner(cur, iter, nextPrime, nn)
             IN  IF nextPrime = r[1]
                 THEN [res |-> r[1], iter |-> r[2]]
                 ELSE IF r[2] < nn
                      THEN CheckOuter(r[1], r[2], nextPrime + 1, nn)
                      ELSE [res |-> 0, iter |-> r[2]]

\* CheckSequence(initialValue, n, &iter): res is the returned value (0: the
\* sequence is correct, else the offending prime), iter is *iterationNbr.
CheckSequence(initialValue, nn) == CheckOuter(initialValue, 1, initialValue, nn)

\* ------------------------------------------------- backward engine helpers
\* Mutant of RuleOut: the loop stops one term early ("while (i < n)").
RECURSIVE RuleOutShort(_, _, _, _, _)
RuleOutShort(arr, offsetPrime, i, nn, size) ==
    IF i < nn
    THEN LET op == offsetPrime - i
         IN  IF op < 0 THEN arr
             ELSE IF op >= size THEN RuleOutShort(arr, op, i + 1, nn, size)
             ELSE RuleOutShort([arr EXCEPT ![op] = 0], op, i + 1, nn, size)
    ELSE arr

\* Mutant of RuleOut: a cell past the block ends the loop ("break" for "continue").
RECURSIVE RuleOutBreak(_, _, _, _, _)
RuleOutBreak(arr, offsetPrime, i, nn, size) ==
    IF i <= nn
    THEN LET op == offsetPrime - i
         IN  IF op < 0 \/ op >= size THEN arr
             ELSE RuleOutBreak([arr EXCEPT ![op] = 0], op, i + 1, nn, size)
    ELSE arr

\* Mutant of RuleOut: the loop runs one term too far ("while (i <= n + 1)").
RECURSIVE RuleOutLong(_, _, _, _, _)
RuleOutLong(arr, offsetPrime, i, nn, size) ==
    IF i <= nn + 1
    THEN LET op == offsetPrime - i
         IN  IF op < 0 THEN arr
             ELSE IF op >= size THEN RuleOutLong(arr, op, i + 1, nn, size)
             ELSE RuleOutLong([arr EXCEPT ![op] = 0], op, i + 1, nn, size)
    ELSE arr

\* processArray, the loop "while (i <= n) { offsetPrime -= (i++); ... }"
\* (nn is n after the n--).
RECURSIVE RuleOut(_, _, _, _, _)
RuleOut(arr, offsetPrime, i, nn, size) ==
    IF i <= nn
    THEN LET op == offsetPrime - i
         IN  IF op < 0 THEN arr
             ELSE IF op >= size THEN RuleOut(arr, op, i + 1, nn, size)
             ELSE RuleOut([arr EXCEPT ![op] = 0], op, i + 1, nn, size)
    ELSE arr

\* processArray: do { possibleStartIndex++; } while (possibleStartIndex < size
\*                                             && !numberArray[possibleStartIndex]);
RECURSIVE NextAlive(_, _, _)
NextAlive(arr, psi, size) ==
    LET q == psi + 1
    IN  IF q < size /\ arr[q] = 0 THEN NextAlive(arr, q, size) ELSE q

\* -------------------------------------------------- forward engine helpers
\* fillArrayOfPrimes, the loop marking primeArray[lastPrime - offset] = 1.
RECURSIVE MarkPrimes(_, _, _, _)
MarkPrimes(arr, p, off, primeSize) ==
    IF p - off < primeSize
    THEN MarkPrimes([arr EXCEPT ![p - off] = 1], NextPrime(p + 1), off, primeSize)
    ELSE arr

\* fillArrayOfPrimes(offset, memSize) with upperBoundDiff = n*(n+1)/2.
fillArrayOfPrimes(off, mem, nn) ==
    LET primeSize == mem + Tri(nn)
    IN  MarkPrimes([j \in 0..(primeSize - 1) |-> 0], NextPrime(off), off, primeSize)

\* isCorrectValue, the loop "while (i < n) if (primeArray[(valueOffset += (i++))]) return 0;"
RECURSIVE TestTerms(_, _, _, _)
TestTerms(arr, valueOffset, i, nn) ==
    IF i < nn
    THEN LET vo == valueOffset + i
         IN  IF arr[vo] # 0 THEN 0 ELSE TestTerms(arr, vo, i + 1, nn)
    ELSE 1

\* isCorrectValue(offset, value, n): 1 = no term of the sequence is marked prime.
isCorrectValue(arr, off, value, nn) == TestTerms(arr, value - off, 0, nn)

\* ------------------------------------------------------- array accesses
\* processArray, "numberArray[offsetPrime] = 0": the indices written for one
\* prime (same loop as RuleOut).
RECURSIVE RuleOutWrites(_, _, _, _)
RuleOutWrites(offsetPrime, i, nn, size) ==
    IF i <= nn
    THEN LET op == offsetPrime - i
         IN  IF op < 0 THEN {}
             ELSE IF op >= size THEN RuleOutWrites(op, i + 1, nn, size)
             ELSE {op} \cup RuleOutWrites(op, i + 1, nn, size)
    ELSE {}

\* processArray, "while ((possibleStartIndex < size) && !numberArray[possibleStartIndex])":
\* the indices read while the pointer moves on from psi (same loop as NextAlive).
RECURSIVE AdvanceReads(_, _, _)
AdvanceReads(arr, psi, size) ==
    LET q == psi + 1
    IN  IF q < size
        THEN {q} \cup (IF arr[q] = 0 THEN AdvanceReads(arr, q, size) ELSE {})
        ELSE {}

\* fillArrayOfPrimes, "primeArray[pIndex] = 1": the indices written (same
\* loop as MarkPrimes).
RECURSIVE MarkWrites(_, _, _)
MarkWrites(p, off, primeSize) ==
    IF p - off < primeSize
    THEN {p - off} \cup MarkWrites(NextPrime(p + 1), off, primeSize)
    ELSE {}

\* isCorrectValue, "primeArray[(valueOffset += (i++))]": the indices read, up
\* to the first marked one (same loop as TestTerms).  A read outside the
\* array ends the enumeration.
RECURSIVE TestReads(_, _, _, _)
TestReads(arr, valueOffset, i, nn) ==
    IF i < nn
    THEN LET vo == valueOffset + i
         IN  {vo} \cup (IF vo \in DOMAIN arr /\ arr[vo] = 0
                        THEN TestReads(arr, vo, i + 1, nn)
                        ELSE {})
    ELSE {}

\* ----------------------------------------------------------- invocation
\* main, before the search: the globals and locals as initialised.
Init ==
    /\ prog \in {"v1", "v2", "mt"}
    /\ run = 1
    /\ firstArgs = NoFirst
    /\ n \in 1..MaxN
    /\ memSize \in MemSizes(prog)
    /\ argStart \in (IF prog = "v1" THEN 0..MaxStart ELSE {0})
    /\ numThreads \in (IF prog = "mt" THEN ThreadCounts ELSE {1})
    /\ pc = (IF prog = "v1" THEN "look" ELSE IF prog = "v2" THEN "fill" ELSE "mtloop")
    /\ it = 0
    /\ startValue = argStart
    /\ offset = 0
    /\ numberArray = Empty
    /\ possibleStartIndex = 0
    /\ lastPrime = 0
    /\ correctStartIndex = -1
    /\ primeArray = Empty
    /\ globalOffset = 0
    /\ bestValue = 0
    /\ mutex = -1
    /\ workers = Empty
    /\ result = -1
    /\ verdict = NoVerdict

\* The program is run again on the same n (and -s), with another -m or
\* (mt) another -t; the first invocation's options and answer are kept.
Restart ==
    /\ pc = "done"
    /\ run = 1
    /\ prog \in {"v1", "v2", "mt"}
    /\ run' = 2
    /\ firstArgs' = [memSize |-> memSize, numThreads |-> numThreads, result |-> result]
    /\ \/ /\ memSize' \in MemSizes(prog) \ {memSize}
          /\ numThreads' = numThreads
       \/ /\ prog = "mt"
          /\ memSize' = memSize
          /\ numThreads' \in ThreadCounts \ {numThreads}
    /\ pc' = (IF prog = "v1" THEN "look" ELSE IF prog = "v2" THEN "fill" ELSE "mtloop")
    /\ it' = 0
    /\ startValue' = argStart
    /\ offset' = 0
    /\ numberArray' = Empty
    /\ possibleStartIndex' = 0
    /\ lastPrime' = 0
    /\ correctStartIndex' = -1
    /\ primeArray' = Empty
    /\ globalOffset' = 0
    /\ bestValue' = 0
    /\ mutex' = -1
    /\ workers' = Empty
    /\ result' = -1
    /\ verdict' = NoVerdict
    /\ UNCHANGED <<prog, n, argStart>>

\* ------------------------------------------------ variant 1 (backward)
\* look4StartValue, top of while (1): initArray(size), then processArray is
\* entered with offset = startValue, startValueIndex = 0 up to the do loop.
Look4Call ==
    /\ prog = "v1"
    /\ pc = "look"
    /\ startValue + memSize <= MaxValue
    /\ numberArray' = [k \in 0..(memSize - 1) |-> 1]
    /\ possibleStartIndex' = 0
    /\ it' = startValue + 0
    /\ lastPrime' = 0
    /\ pc' = "proc"
    /\ UNCHANGED <<args, startValue, offset, correctStartIndex, primeArray,
                   mtvars, result, verdict>>

\* Mutant of KeepDrawing: upperBoundDiff is left out of the test.
KeepDrawingNoBound(psi, upperBoundDiff, initialOffsetPrime) ==
    psi >= initialOffsetPrime

\* processArray's loop condition: (possibleStartIndex + upperBoundDiff) >= initialOffsetPrime
KeepDrawing(psi, upperBoundDiff, initialOffsetPrime) ==
    psi + upperBoundDiff >= initialOffsetPrime

\* processArray, one pass of the do ... while loop: draw a prime, rule out
\* backwards, move the pointer, then return -1, return the pointer or loop.
ProcessArrayIter ==
    /\ prog = "v1"
    /\ pc = "proc"
    /\ LET nn == n - 1
           upperBoundDiff == (nn * (nn + 1)) \div 2
           p == NextPrime(it)
           initialOffsetPrime == p - startValue
           arr == RuleOut(numberArray, initialOffsetPrime, 0, nn, memSize)
           hit == arr[possibleStartIndex] = 0
           psi == IF hit THEN NextAlive(arr, possibleStartIndex, memSize)
                         ELSE possibleStartIndex
       IN  /\ lastPrime' = p
           /\ it' = p + 1
           /\ numberArray' = arr
           /\ possibleStartIndex' = psi
           /\ IF hit /\ psi = memSize
              THEN /\ correctStartIndex' = -1
                   /\ pc' = "ret"
              ELSE IF KeepDrawing(psi, upperBoundDiff, initialOffsetPrime)
                   THEN /\ pc' = "proc"
                        /\ UNCHANGED correctStartIndex
                   ELSE /\ correctStartIndex' = psi
                        /\ pc' = "ret"
    /\ UNCHANGED <<args, startValue, offset, primeArray, mtvars, result, verdict>>

\* look4StartValue after processArray returned: the value is found, or the
\* next block of integers is taken (startValue += size).
Look4Return ==
    /\ prog = "v1"
    /\ pc = "ret"
    /\ IF correctStartIndex >= 0
       THEN /\ result' = correctStartIndex + startValue
            /\ pc' = "verify"
            /\ UNCHANGED startValue
       ELSE /\ startValue' = startValue + memSize
            /\ pc' = "look"
            /\ UNCHANGED result
    /\ UNCHANGED <<args, it, offset, v1vars, primeArray, mtvars, verdict>>

\* ------------------------------------------------- variant 2 (forward)
\* main: upperBoundDiff = n*(n+1)/2; fillArrayOfPrimes(0, memSize).
FillFirst ==
    /\ prog = "v2"
    /\ pc = "fill"
    /\ primeArray' = fillArrayOfPrimes(0, memSize, n)
    /\ pc' = "scan"
    /\ UNCHANGED <<args, it, startValue, offset, v1vars, mtvars, result, verdict>>

\* main, one pass of while (1): refill when the block is used up, test
\* startValue, break or startValue++.
ScanIter ==
    /\ prog = "v2"
    /\ pc = "scan"
    /\ startValue <= MaxValue
    /\ LET refill == startValue - offset >= memSize
           off == IF refill THEN startValue ELSE offset
           arr == IF refill THEN fillArrayOfPrimes(startValue, memSize, n)
                            ELSE primeArray
           res == isCorrectValue(arr, off, startValue, n)
       IN  /\ offset' = off
           /\ primeArray' = arr
           /\ IF res # 0
              THEN /\ result' = startValue
                   /\ pc' = "verify"
                   /\ UNCHANGED startValue
              ELSE /\ startValue' = startValue + 1
                   /\ UNCHANGED <<pc, result>>
    /\ UNCHANGED <<args, it, v1vars, mtvars, verdict>>

\* --------------------------------------------- variant 2_MT (concurrent)
\* main, top of while (!bestValue): fillArrayOfPrimes(memSize), then the
\* numThreads threads are created with tab[i] = i + globalOffset.  A thread
\* whose initial value is outside the block touches no shared state: it
\* skips its loop and exits with -1.
MTFill ==
    /\ prog = "mt"
    /\ pc = "mtloop"
    /\ globalOffset + memSize <= MaxValue
    /\ primeArray' = fillArrayOfPrimes(globalOffset, memSize, n)
    /\ workers' = [w \in 0..(numThreads - 1) |->
                     IF w + globalOffset < memSize + globalOffset
                     THEN [pc |-> "loop", startValue |-> w + globalOffset, res |-> 0]
                     ELSE [pc |-> "exited", startValue |-> -1, res |-> 0]]
    /\ pc' = "mtjoin"
    /\ UNCHANGED <<args, it, startValue, offset, v1vars, globalOffset, bestValue,
                   mutex, result, verdict>>

\* Mutant of Step: the while test is skipped, the thread tests on past the block.
StepNoTest(wk) ==
    [pc |-> "loop", startValue |-> wk.startValue + numThreads, res |-> wk.res]

\* mainLoop: *startValue += numThreads, then the while test; past the block
\* the thread sets *startValue = -1 and exits.
Step(wk) ==
    LET sv == wk.startValue + numThreads
    IN  IF sv < memSize + globalOffset
        THEN [pc |-> "loop", startValue |-> sv, res |-> wk.res]
        ELSE [pc |-> "exited", startValue |-> -1, res |-> wk.res]

\* mainLoop, loop body: res = isCorrectValue(*startValue), then the first
\* read of bestValue in "res || (bestValue && bestValue < *startValue)".
WorkerTest(w) ==
    /\ prog = "mt"
    /\ pc = "mtjoin"
    /\ workers[w].pc = "loop"
    /\ LET wk == workers[w]
           res == isCorrectValue(primeArray, globalOffset, wk.startValue, n)
       IN  workers' = [workers EXCEPT ![w] =
               IF res # 0 THEN [wk EXCEPT !.pc = "lock", !.res = res]
               ELSE IF bestValue = 0 THEN Step([wk EXCEPT !.res = res])
               ELSE [wk EXCEPT !.pc = "read2", !.res = res]]
    /\ UNCHANGED <<args, pc, it, startValue, offset, v1vars, primeArray,
                   globalOffset, bestValue, mutex, result, verdict>>

\* mainLoop: the second read of bestValue, "bestValue < *startValue".
WorkerRead2(w) ==
    /\ prog = "mt"
    /\ pc = "mtjoin"
    /\ workers[w].pc = "read2"
    /\ workers' = [workers EXCEPT ![w] =
           IF bestValue < workers[w].startValue
           THEN [workers[w] EXCEPT !.pc = "lock"]
           ELSE Step(workers[w])]
    /\ UNCHANGED <<args, pc, it, startValue, offset, v1vars, primeArray,
                   globalOffset, bestValue, mutex, result, verdict>>

\* mainLoop: pthread_mutex_lock(&mutex).
WorkerLock(w) ==
    /\ prog = "mt"
    /\ pc = "mtjoin"
    /\ workers[w].pc = "lock"
    /\ mutex = -1
    /\ mutex' = w
    /\ workers' = [workers EXCEPT ![w].pc = "crit"]
    /\ UNCHANGED <<args, pc, it, startValue, offset, v1vars, primeArray,
                   globalOffset, bestValue, result, verdict>>

\* mainLoop: the test "!bestValue || *startValue < bestValue".
Installs(best, sv) == best = 0 \/ sv < best

\* mainLoop: if (!bestValue || *startValue < bestValue) bestValue = *startValue;
WorkerUpdate(w) ==
    /\ prog = "mt"
    /\ pc = "mtjoin"
    /\ workers[w].pc = "crit"
    /\ bestValue' = (IF Installs(bestValue, workers[w].startValue)
                     THEN workers[w].startValue ELSE bestValue)
    /\ workers' = [workers EXCEPT ![w].pc = "unlock"]
    /\ UNCHANGED <<args, pc, it, startValue, offset, v1vars, primeArray,
                   globalOffset, mutex, result, verdict>>

\* mainLoop: pthread_mutex_unlock(&mutex); return startValue.
WorkerUnlock(w) ==
    /\ prog = "mt"
    /\ pc = "mtjoin"
    /\ workers[w].pc = "unlock"
    /\ mutex' = -1
    /\ workers' = [workers EXCEPT ![w].pc = "returned"]
    /\ UNCHANGED <<args, pc, it, startValue, offset, v1vars, primeArray,
                   globalOffset, bestValue, result, verdict>>

\* main: every thread is joined and its exit value freed; globalOffset += memSize.
MTJoin ==
    /\ prog = "mt"
    /\ pc = "mtjoin"
    /\ \A w \in DOMAIN workers : workers[w].pc \in {"returned", "exited"}
    /\ workers' = Empty
    /\ globalOffset' = globalOffset + memSize
    /\ pc' = "mtcheck"
    /\ UNCHANGED <<args, it, startValue, offset, v1vars, primeArray, bestValue,
                   mutex, result, verdict>>

\* main: the test of while (!bestValue); on exit bestValue is the value found.
MTCheck ==
    /\ prog = "mt"
    /\ pc = "mtcheck"
    /\ IF bestValue = 0
       THEN /\ pc' = "mtloop"
            /\ UNCHANGED result
       ELSE /\ pc' = "verify"
            /\ result' = bestValue
    /\ UNCHANGED <<args, it, startValue, offset, v1vars, primeArray, mtvars, verdict>>

\* ------------------------------------------------------------ verification
\* main: res = CheckSequence(value found, n, &iter), then ERROR or SUCCESS.
MainVerify ==
    /\ pc = "verify"
    /\ verdict' = CheckSequence(result, n)
    /\ pc' = "done"
    /\ UNCHANGED <<args, it, startValue, offset, v1vars, primeArray, mtvars, result>>

Next ==
    \/ Look4Call
    \/ ProcessArrayIter
    \/ Look4Return
    \/ FillFirst
    \/ ScanIter
    \/ MTFill
    \/ \E w \in DOMAIN workers : WorkerTest(w)
    \/ \E w \in DOMAIN workers : WorkerRead2(w)
    \/ \E w \in DOMAIN workers : WorkerLock(w)
    \/ \E w \in DOMAIN workers : WorkerUpdate(w)
    \/ \E w \in DOMAIN workers : WorkerUnlock(w)
    \/ MTJoin
    \/ MTCheck
    \/ MainVerify
    \/ Restart

Spec == Init /\ [][Next]_vars

\* CheckSequence alone, on every candidate 0..MaxCheck and every n: the
\* state of main at the call, with "result" the value handed over.
InitVerifier ==
    /\ prog = "check"
    /\ run = 1
    /\ firstArgs = NoFirst
    /\ n \in 1..MaxN
    /\ memSize = 1
    /\ argStart = 0
    /\ numThreads = 1
    /\ pc = "verify"
    /\ it = 0
    /\ startValue = 0
    /\ offset = 0
    /\ numberArray = Empty
    /\ possibleStartIndex = 0
    /\ lastPrime = 0
    /\ correctStartIndex = -1
    /\ primeArray = Empty
    /\ globalOffset = 0
    /\ bestValue = 0
    /\ mutex = -1
    /\ workers = Empty
    /\ result \in 0..MaxCheck
    /\ verdict = NoVerdict

NextVerifier == MainVerify

SpecVerifier == InitVerifier /\ [][NextVerifier]_vars

\* ================================================================ claims
\* Vocabulary of the claims: the sequence A + T(i), 0 <= i < nn, holds no prime.
IsValidStart(A, nn) == \A i \in 0..(nn - 1) : ~IsPrime(A + Tri(i))

\* Smallest element of a non-empty set of integers.
MinOf(S) == CHOOSE x \in S : \A y \in S : x <= y

Serial == prog \in {"v1", "v2"}

\* The forward strategy on one block [off, off + mem): fillArrayOfPrimes, then
\* isCorrectValue on off, off + 1, ...; the index of the first hit, or -1.
ForwardWindow(off, mem, nn) ==
    LET arr == fillArrayOfPrimes(off, mem, nn)
        hits == {k \in 0..(mem - 1) : isCorrectValue(arr, off, off + k, nn) # 0}
    IN  IF hits = {} THEN -1 ELSE MinOf(hits)

\* C1: the serial search (variant 1 from any start value and window size,
\* variant 2 from 0) returns the smallest A >= start value whose n terms
\* A + T(i) are all non-prime.
C1_SerialSmallest ==
    (Serial /\ pc \in {"verify", "done"}) =>
        /\ result >= argStart
        /\ IsValidStart(result, n)
        /\ \A B \in argStart..(result - 1) : ~IsValidStart(B, n)

\* C1 witness: variant 1 finished after at least one block was used up.
C1_Witness ==
    /\ prog = "v1" /\ pc = "done" /\ n >= 3
    /\ result >= argStart + memSize

\* C2: the value the engine returns is confirmed by CheckSequence (SUCCESS,
\* never ERROR), in every variant.
C2_RoundTrip == (pc = "done" /\ prog \in {"v1", "v2", "mt"}) => verdict.res = 0

\* C3: once the workers of a block are joined, bestValue is set iff the
\* block holds a valid start value, and then it is the smallest one.
C3_JoinedMinimum ==
    (prog = "mt" /\ pc = "mtcheck") =>
        LET off == globalOffset - memSize
            valid == {v \in off..(off + memSize - 1) : IsValidStart(v, n)}
        IN  /\ (bestValue # 0) <=> (valid # {})
            /\ (bestValue # 0) => bestValue = MinOf(valid)

\* C4: with the same n and block size, another worker count gives the same
\* answer.
C4_ThreadCountIndependent ==
    (prog = "mt" /\ run = 2 /\ pc = "done" /\ firstArgs.memSize = memSize) =>
        result = firstArgs.result

\* C5: on every block, processArray returns what the forward strategy
\* returns on that block: the same smallest index, or -1 for both.
C5_BackwardEqualsForward ==
    (prog = "v1" /\ pc = "ret") =>
        correctStartIndex = ForwardWindow(startValue, memSize, n)

\* C5 witness: processArray returned an index past the first cell of a block.
C5_Witness ==
    /\ prog = "v1" /\ pc = "ret" /\ n >= 3
    /\ correctStartIndex >= 1

\* C6: with the same n, start value and worker count, another block size
\* gives the same answer, in every variant.
C6_WindowSizeIndependent ==
    (run = 2 /\ pc = "done" /\ firstArgs.numThreads = numThreads) =>
        result = firstArgs.result

\* C7: CheckSequence(A, n) returns a prime term of the sequence exactly when
\* one of a_0 .. a_(n-1) is prime, and else returns 0 with the iteration
\* counter at n.
C7_VerifierContract ==
    (prog = "check" /\ pc = "done") =>
        LET terms == {result + Tri(i) : i \in 0..(n - 1)}
        IN  IF \E a \in terms : IsPrime(a)
            THEN verdict.res \in terms /\ IsPrime(verdict.res)
            ELSE verdict.res = 0 /\ verdict.iter = n

\* C8 as stated: for n = 2 the search from 0 reports 8.
C8_ReportsEight ==
    (Serial /\ n = 2 /\ argStart = 0 /\ pc = "done") => result = 8

\* C8 amended: for n = 2 the serial search from 0 reports 0 (neither 0 nor 1
\* is prime); every A in 1..7 is rejected, so a search started anywhere in
\* 1..8 reports 8.
C8_ZeroThenEight ==
    (Serial /\ n = 2 /\ pc = "done") =>
        /\ argStart = 0 => result = 0
        /\ argStart \in 1..8 => result = 8

\* C8 witness: variant 1 started at 1 with n = 2 has reported 8.
C8_Witness ==
    /\ prog = "v1" /\ n = 2 /\ argStart = 1 /\ pc = "done"
    /\ result = 8

\* C9: for n = 1 and start value 0 every variant, with any worker count,
\* reports 0.
C9_OneTermZero ==
    (n = 1 /\ argStart = 0 /\ pc = "done" /\ prog \in {"v1", "v2", "mt"}) => result = 0

\* C10: bestValue is "none" (0) or a start value that passes the table test.
C10_BestValueValid ==
    (prog = "mt" /\ pc = "mtjoin") =>
        \/ bestValue = 0
        \/ isCorrectValue(primeArray, globalOffset, bestValue, n) # 0

\* Inside one processArray call: the block is [startValue, startValue + memSize).
InProcessArray == prog = "v1" /\ pc \in {"proc", "ret"}

\* Cell k is explained by a prime drawn so far in this call: some prime p in
\* [startValue, lastPrime] is term i of the sequence starting at startValue + k.
Explained(k) ==
    \E p \in startValue..lastPrime :
        /\ IsPrime(p)
        /\ \E i \in 0..(n - 1) : startValue + k + Tri(i) = p

\* The state predicate of C11: no prime drawn means every cell is alive, and
\* every crossed-out cell is explained by a prime drawn.
SoundMarks ==
    InProcessArray =>
        /\ DOMAIN numberArray = 0..(memSize - 1)
        /\ lastPrime = 0 => \A k \in DOMAIN numberArray : numberArray[k] = 1
        /\ \A k \in DOMAIN numberArray : numberArray[k] = 0 => Explained(k)

\* C11: within one processArray call every cell is alive after initArray, a
\* cell is crossed out only if a prime already drawn is one of its n terms,
\* and a crossed-out cell stays crossed out until the next initArray.
C11_SoundMonotonicMarks ==
    [][ /\ SoundMarks'
        /\ (prog = "v1" /\ pc = "proc") =>
               \A k \in DOMAIN numberArray :
                   numberArray[k] = 0 => numberArray'[k] = 0 ]_vars

\* C11 witness: after at least two primes, a block with a crossed-out cell
\* and an alive cell.
C11_Witness ==
    /\ prog = "v1" /\ pc = "proc" /\ n >= 3
    /\ lastPrime > NextPrime(startValue)
    /\ \E k \in DOMAIN numberArray : numberArray[k] = 0
    /\ \E k \in DOMAIN numberArray : numberArray[k] = 1

\* The cells of the block that prime p crosses out when the term indices run
\* from 0 to last.
CellsOf(p, last) ==
    {k \in 0..(memSize - 1) : \E i \in 0..last : k = p - startValue - Tri(i)}

\* C12 as stated: a prime drawn crosses out exactly the in-block cells
\* p - offset - T(i) for i = 0 .. n-2.
C12_TermsToNMinus2 ==
    [][ (prog = "v1" /\ pc = "proc") =>
            numberArray' = [k \in DOMAIN numberArray |->
                IF k \in CellsOf(lastPrime', n - 2) THEN 0 ELSE numberArray[k]] ]_vars

\* C12 amended: a prime drawn crosses out exactly the in-block cells
\* p - offset - T(i) for i = 0 .. n-1, so the smallest cell a prime p can
\* cross out is p - offset - T(n-1).
C12_TermsToNMinus1 ==
    [][ (prog = "v1" /\ pc = "proc") =>
            numberArray' = [k \in DOMAIN numberArray |->
                IF k \in CellsOf(lastPrime', n - 1) THEN 0 ELSE numberArray[k]] ]_vars

\* C12 witness: the last prime drawn has crossed out the cell of its term
\* n-1, which no term of smaller index of that prime reaches.
C12_Witness ==
    /\ prog = "v1" /\ pc \in {"proc", "ret"} /\ n >= 2 /\ lastPrime > 0
    /\ LET k == lastPrime - startValue - Tri(n - 1)
       IN  /\ k \in DOMAIN numberArray
           /\ numberArray[k] = 0
           /\ \A q \in startValue..(lastPrime - 1) :
                  IsPrime(q) => k \notin CellsOf(q, n - 1)

\* C13: when processArray returns k >= 0, k + T(n-1) < p - offset for the
\* last prime p drawn, every cell below k is crossed out, cell k is alive and
\* no later prime reaches cell k or below; when it returns -1 every cell of
\* the block is crossed out.
C13_EarlyStopFinal ==
    (prog = "v1" /\ pc = "ret") =>
        IF correctStartIndex >= 0
        THEN /\ correctStartIndex = possibleStartIndex
             /\ correctStartIndex + Tri(n - 1) < lastPrime - startValue
             /\ \A j \in 0..(correctStartIndex - 1) : numberArray[j] = 0
             /\ numberArray[correctStartIndex] = 1
             /\ \A q \in (lastPrime + 1)..(lastPrime + MaxValue) :
                    IsPrime(q) =>
                        \A i \in 0..(n - 1) :
                            q - startValue - Tri(i) > correctStartIndex
        ELSE /\ correctStartIndex = -1
             /\ \A j \in DOMAIN numberArray : numberArray[j] = 0

\* C13 witness: processArray returned a cell after crossing out the cells
\* below it, having drawn a prime beyond the block.
C13_Witness ==
    /\ prog = "v1" /\ pc = "ret" /\ n >= 3
    /\ correctStartIndex >= 2
    /\ lastPrime - startValue >= memSize

\* The cells of primeArray: memSize + upperBoundDiff, upperBoundDiff = n*(n+1)/2.
PrimeCells == 0..(memSize + Tri(n) - 1)

\* fillArrayOfPrimes on the block at off writes inside primeArray, and the
\* table it leaves has exactly the written cells set.
FillInBounds(off) ==
    LET w == MarkWrites(NextPrime(off), off, memSize + Tri(n))
    IN  /\ w \subseteq PrimeCells
        /\ fillArrayOfPrimes(off, memSize, n) =
               [j \in PrimeCells |-> IF j \in w THEN 1 ELSE 0]

\* isCorrectValue on candidate value of the block at off reads inside
\* primeArray, at value - off + T(i) with i < n, and answers from those cells.
TestInBounds(arr, off, value) ==
    LET r == TestReads(arr, value - off, 0, n)
    IN  /\ value - off \in 0..(memSize - 1)
        /\ DOMAIN arr = PrimeCells
        /\ r \subseteq PrimeCells
        /\ r \subseteq {value - off + Tri(i) : i \in 0..(n - 1)}
        /\ (isCorrectValue(arr, off, value, n) # 0) <=> (\A j \in r : arr[j] = 0)

\* C14: every array access of the engines is inside the allocated array:
\* processArray writes numberArray in [0, size) and reads it at indices
\* < size; fillArrayOfPrimes writes primeArray in [0, memSize + upperBoundDiff);
\* isCorrectValue, in the serial loop and in every worker, reads primeArray
\* at value - offset + T(i), i < n, all < memSize + upperBoundDiff.
C14_AccessesInBounds ==
    /\ (prog = "v1" /\ pc = "proc") =>
           LET iop == NextPrime(it) - startValue
               w == RuleOutWrites(iop, 0, n - 1, memSize)
               arr == RuleOut(numberArray, iop, 0, n - 1, memSize)
           IN  /\ DOMAIN numberArray = 0..(memSize - 1)
               /\ w \subseteq 0..(memSize - 1)
               /\ arr = [k \in 0..(memSize - 1) |->
                            IF k \in w THEN 0 ELSE numberArray[k]]
               /\ possibleStartIndex \in 0..(memSize - 1)
               /\ arr[possibleStartIndex] = 0 =>
                      AdvanceReads(arr, possibleStartIndex, memSize)
                          \subseteq 0..(memSize - 1)
    /\ (prog = "v2" /\ pc = "fill") => FillInBounds(0)
    /\ (prog = "v2" /\ pc = "scan") =>
           IF startValue - offset >= memSize
           THEN /\ FillInBounds(startValue)
                /\ TestInBounds(fillArrayOfPrimes(startValue, memSize, n),
                                startValue, startValue)
           ELSE TestInBounds(primeArray, offset, startValue)
    /\ (prog = "mt" /\ pc = "mtloop") => FillInBounds(globalOffset)
    /\ (prog = "mt" /\ pc = "mtjoin") =>
           \A w \in DOMAIN workers :
               workers[w].pc = "loop" =>
                   TestInBounds(primeArray, globalOffset, workers[w].startValue)

\* C14 witness: a worker is about to test the last candidate of a later
\* block; its term a_1 is not prime, so the reads go on into the cells of
\* primeArray past memSize.
C14_Witness ==
    /\ prog = "mt" /\ pc = "mtjoin" /\ n >= 3 /\ globalOffset > 0
    /\ \E w \in DOMAIN workers :
           /\ workers[w].pc = "loop"
           /\ workers[w].startValue = globalOffset + memSize - 1
           /\ primeArray[memSize - 1 + Tri(1)] = 0
====
